---------------------------- MODULE Spec2Model ----------------------------
(***************************************************************************)
(* The minimisation pipeline of boolean.py: the truth table of a parsed   *)
(* expression, QM.group_terms (Quine-McCluskey grouping), the coverage    *)
(* table, the essential prime implicants, QM.petricks_method and the      *)
(* report of QM.generate_solution.                                         *)
(*                                                                         *)
(* Representation.  A Python str is a sequence of one-character strings:  *)
(* the pattern '0-1' is <<"0","-","1">>, the literal A' is <<"A","'">>.   *)
(* A Python list is a sequence.  self.prime_implicants is a Python set,   *)
(* whose iteration order is not defined (str hashes are randomised per    *)
(* process); every list that generate_prime_implicants builds by          *)
(* iterating it (the lists of the coverage table, the list of essential   *)
(* implicants, self.function) is therefore kept by its contents, as a     *)
(* set, and the one place where that order selects a result, the first    *)
(* shortest term taken by min(petrick[0], key=len), is a nondeterministic *)
(* choice among the shortest terms.                                        *)
(*                                                                         *)
(* The expression enters as its truth table: outputRows is the list that  *)
(* GenerateContext.generate_truths returns for it, one boolean per row.   *)
(***************************************************************************)
EXTENDS Integers, Sequences, FiniteSets, TLC

\* Largest number of variables of an expression.
MaxVars == 3

\* Longest literal term handed to multiply_minterms in SpecMul.
MaxTermLen == 2

None == -1

Letters == <<"A", "B", "C", "D", "E", "F", "G", "H">>

Range(s) == {s[i] : i \in 1..Len(s)}

RECURSIVE Pow2(_)
Pow2(k) == IF k = 0 THEN 1 ELSE 2 * Pow2(k - 1)

\* bin(i)[2:]: the binary digits of i, most significant first, "0" for 0.
RECURSIVE bin(_)
bin(i) ==
    IF i < 2 THEN << (IF i = 1 THEN "1" ELSE "0") >>
    ELSE Append(bin(i \div 2), IF i % 2 = 1 THEN "1" ELSE "0")

\* str.zfill(width)
RECURSIVE zfill(_, _)
zfill(s, width) == IF Len(s) >= width THEN s ELSE zfill(<<"0">> \o s, width)

\* int(s, 2) of a non-empty string of binary digits.
RECURSIVE int2(_)
int2(s) ==
    IF Len(s) = 0 THEN 0
    ELSE 2 * int2(SubSeq(s, 1, Len(s) - 1)) + (IF s[Len(s)] = "1" THEN 1 ELSE 0)

Digits == <<"0", "1", "2", "3", "4", "5", "6", "7", "8", "9">>

\* str(i) of a non-negative int: its decimal digits.
RECURSIVE str(_)
str(i) == IF i < 10 THEN <<Digits[i + 1]>> ELSE Append(str(i \div 10), Digits[(i % 10) + 1])

\* s.count(c)
count(s, c) == Cardinality({i \in 1..Len(s) : s[i] = c})

\* sorted(list of ints)
RECURSIVE sorted(_)
sorted(S) ==
    IF S = {} THEN <<>>
    ELSE LET m == CHOOSE x \in S : \A y \in S : x <= y
         IN <<m>> \o sorted(S \ {m})

\* Parser.order_variable_set for an expression over nv single-letter names.
order_variable_set(nv) == [i \in 1..nv |-> <<Letters[i]>>]

\* itertools.product([0, 1], repeat=nv): row r (from 0) is r in binary, nv wide.
combinations(nv) ==
    [r \in 1..Pow2(nv) |->
        [i \in 1..nv |-> ((r - 1) \div Pow2(nv - i)) % 2]]

VARIABLES
    variables,                  \* QM.variables: the sorted variable names
    context,                    \* QM.context: one row of bits per assignment
    outputRows,                 \* the truth table generate_truths returned
    output_row,                 \* QM.output_row
    minterms,                   \* QM.minterms
    bin_length,                 \* group_terms: width of the patterns
    groups,                     \* group_terms: key -> list of patterns
    passes,                     \* group_terms: merge passes completed
    merged_any,                 \* group_terms: whether the last pass merged
    prime_implicants,           \* QM.prime_implicants
    prime_implicants_list,      \* generate_solution: the coverage table
    essential_prime_implicants, \* generate_solution: the essential implicants
    function,                   \* QM.function
    pc,                         \* position in generate_solution
    outcome,                    \* what the run ended in
    term1, term2,               \* multiply_minterms: its two arguments
    product                     \* multiply_minterms: what it returned

vars == <<variables, context, outputRows, output_row, minterms, bin_length,
          groups, passes, merged_any, prime_implicants, prime_implicants_list,
          essential_prime_implicants, function, pc, outcome, term1, term2, product>>

mul_vars == <<term1, term2, product>>

qm_vars == <<variables, context, outputRows, output_row, minterms, bin_length,
             groups, passes, merged_any, prime_implicants, prime_implicants_list,
             essential_prime_implicants, function, outcome>>

\* QM.__init__ on the rows of an expression over nv variables.
Init ==
    \E nv \in 0..MaxVars :
        /\ variables = order_variable_set(nv)
        /\ context = combinations(nv)
        /\ outputRows \in [1..Pow2(nv) -> BOOLEAN]
        /\ output_row = outputRows
        /\ minterms = <<>>
        /\ bin_length = 0
        /\ groups = <<>>
        /\ passes = 0
        /\ merged_any = FALSE
        /\ prime_implicants = {}
        /\ prime_implicants_list = <<>>
        /\ essential_prime_implicants = {}
        /\ function = {}
        /\ pc = "generate_min_terms"
        /\ outcome = "running"
        /\ term1 = <<>>
        /\ term2 = <<>>
        /\ product = <<>>

\* An uncaught exception ends the run.
Raise(exc) ==
    /\ pc' = "failed"
    /\ outcome' = exc

\* The string of a context row: str of each bit, concatenated.
row_string(row) == [i \in 1..Len(row) |-> IF row[i] = 1 THEN "1" ELSE "0"]

\* int('', 2) raises ValueError: an expression without variables has one empty row.
generate_min_terms ==
    /\ pc = "generate_min_terms"
    /\ IF \E r \in 1..Len(context) : Len(context[r]) = 0
       THEN /\ Raise("ValueError")
            /\ UNCHANGED minterms
       ELSE /\ minterms' = [r \in 1..Len(context) |-> int2(row_string(context[r]))]
            /\ pc' = "remove_dont_cares"
            /\ UNCHANGED outcome
    /\ UNCHANGED mul_vars
    /\ UNCHANGED <<variables, context, outputRows, output_row, bin_length, groups,
                   passes, merged_any, prime_implicants, prime_implicants_list,
                   essential_prime_implicants, function>>

\* The positions (from 0) that remove_dont_cares flags: the rows that are not falsy.
pos_flags(rows) == {pos \in 0..(Len(rows) - 1) : rows[pos + 1]}

\* list.pop at each flagged position in turn, shifted by the pops made so far:
\* the entries at the flagged positions go, the others keep their order.
pop_flagged(list, flags) ==
    LET kept == sorted({pos \in 0..(Len(list) - 1) : pos \notin flags})
    IN  [k \in 1..Len(kept) |-> list[kept[k] + 1]]

\* temp gets self.output_row[row] for every falsy row: row is False, index 0.
remove_dont_cares ==
    /\ pc = "remove_dont_cares"
    /\ LET flags == pos_flags(output_row)
           nfalse == Len(output_row) - Cardinality(flags)
       IN  /\ output_row' = [k \in 1..nfalse |-> output_row[1]]
           /\ minterms' = pop_flagged(minterms, flags)
    /\ pc' = "group_terms"
    /\ UNCHANGED mul_vars
    /\ UNCHANGED <<variables, context, outputRows, bin_length, groups, passes,
                   merged_any, prime_implicants, prime_implicants_list,
                   essential_prime_implicants, function, outcome>>

\* bin(term).count('1')
num_ones(term) == count(bin(term), "1")

\* The first set of groups: number of 1s -> the patterns of the minterms with that
\* many 1s, in the order of the (sorted) minterm list.
first_groups(terms, width) ==
    [k \in {num_ones(terms[i]) : i \in 1..Len(terms)} |->
        LET members == SelectSeq(terms, LAMBDA t : num_ones(t) = k)
        IN  [i \in 1..Len(members) |-> zfill(bin(members[i]), width)]]

\* The head of group_terms: sort, the width from the largest minterm, the first
\* groups.  self.minterms[-1] of an empty list raises IndexError.
group_terms ==
    /\ pc = "group_terms"
    /\ \E terms \in {sorted(Range(minterms))} :
           IF Len(minterms) = 0
           THEN /\ Raise("IndexError")
                /\ UNCHANGED <<minterms, bin_length, groups>>
           ELSE /\ minterms' = terms
                /\ bin_length' = Len(bin(terms[Len(terms)]))
                /\ groups' = first_groups(terms, Len(bin(terms[Len(terms)])))
                /\ pc' = "merge_pass"
                /\ UNCHANGED outcome
    /\ UNCHANGED mul_vars
    /\ UNCHANGED <<variables, context, outputRows, output_row, passes, merged_any,
                   prime_implicants, prime_implicants_list,
                   essential_prime_implicants, function>>

\* does_bit_differ_by_one without its "if count_diffs > 1: return False, None":
\* any difference counts, and diff_pos is the last differing position.
does_bit_differ_at_all(first_bin_num, second_bin_num) ==
    LET diffs == {i \in 0..(Len(first_bin_num) - 1) :
                     first_bin_num[i + 1] # second_bin_num[i + 1]}
    IN  IF diffs # {}
        THEN <<TRUE, CHOOSE i \in diffs : \A j \in diffs : j <= i>>
        ELSE <<FALSE, None>>

\* <<whether the two strings differ in exactly one position, that position from 0>>
does_bit_differ_by_one(first_bin_num, second_bin_num) ==
    LET diffs == {i \in 0..(Len(first_bin_num) - 1) :
                     first_bin_num[i + 1] # second_bin_num[i + 1]}
    IN  IF Cardinality(diffs) = 1
        THEN <<TRUE, CHOOSE i \in diffs : TRUE>>
        ELSE <<FALSE, None>>

\* y[:pos] + '-' + y[pos + 1:]
dash_at(y, pos) == SubSeq(y, 1, pos) \o <<"-">> \o SubSeq(y, pos + 2, Len(y))

\* Every (y, z) of two adjacent groups in loop order, y outermost, each with
\* the result of does_bit_differ_by_one(y, z).
compared(ys, zs) ==
    [p \in 1..(Len(ys) * Len(zs)) |->
        LET y == ys[((p - 1) \div Len(zs)) + 1]
            z == zs[((p - 1) % Len(zs)) + 1]
        IN  <<y, z, does_bit_differ_by_one(y, z)>>]

\* The (y, z, bit_differ) for which "if bit_differ[0]" holds.
merging_pairs(ys, zs) == SelectSeq(compared(ys, zs), LAMBDA c : c[3][1])

\* A list with each element kept at its first occurrence ("if x not in list: append").
RECURSIVE append_new(_)
append_new(s) ==
    IF Len(s) = 0 THEN <<>>
    ELSE LET d == append_new(SubSeq(s, 1, Len(s) - 1))
         IN  IF s[Len(s)] \in Range(d) THEN d ELSE Append(d, s[Len(s)])

\* groups[group_num] after the y and z loops over one pair of adjacent groups.
merged_group(mp) == append_new([k \in 1..Len(mp) |-> dash_at(mp[k][1], mp[k][3][2])])

\* list_flatten returning from inside its loop: the first group's list alone.
list_flatten_first(input_list) ==
    IF DOMAIN input_list = {} THEN {}
    ELSE Range(input_list[CHOOSE k \in DOMAIN input_list :
                              \A j \in DOMAIN input_list : k <= j])

\* list_flatten, as a set
list_flatten(input_list) == UNION {Range(input_list[k]) : k \in DOMAIN input_list}

\* The "for x in range(len(group_elements) - 1)" loop from x on; group_num is x.
RECURSIVE merge_from(_, _, _, _)
merge_from(first_set_groups, group_elements, x, acc) ==
    IF x > Len(group_elements) - 2 THEN acc
    ELSE LET mp == merging_pairs(first_set_groups[group_elements[x + 1]],
                                 first_set_groups[group_elements[x + 2]])
         IN  merge_from(first_set_groups, group_elements, x + 1,
                 IF Len(mp) = 0 THEN acc
                 ELSE [groups |-> acc.groups @@ (x :> merged_group(mp)),
                       changed_minterms |-> acc.changed_minterms \cup
                           UNION {{mp[k][1], mp[k][2]} : k \in 1..Len(mp)},
                       break_loop |-> FALSE])

\* One pass of the while loop of group_terms over first_set_groups:
\* the new groups, the changed minterms and break_loop.
merge_result(first_set_groups) ==
    merge_from(first_set_groups, sorted(DOMAIN first_set_groups), 0,
               [groups |-> <<>>, changed_minterms |-> {}, break_loop |-> TRUE])

merge_pass ==
    /\ pc = "merge_pass"
    /\ \E r \in {merge_result(groups)} :
         LET unchanged_minterms == list_flatten(groups) \ r.changed_minterms IN
           /\ groups' = r.groups
           /\ prime_implicants' = prime_implicants \cup unchanged_minterms
           /\ merged_any' = ~r.break_loop
           /\ pc' = IF r.break_loop THEN "generate_prime_implicants" ELSE "merge_pass"
    /\ passes' = passes + 1
    /\ UNCHANGED mul_vars
    /\ UNCHANGED <<variables, context, outputRows, output_row, minterms, bin_length,
                   prime_implicants_list, essential_prime_implicants, function,
                   outcome>>

\* The pattern with its '-' positions filled, left to right, by the given
\* digits: each digit goes to the next '-' after the one filled before.
RECURSIVE fill_dashes(_, _, _)
fill_dashes(temp_min_terms, digits, from) ==
    IF Len(digits) = 0 THEN temp_min_terms
    ELSE IF temp_min_terms[from] = "-"
         THEN fill_dashes([temp_min_terms EXCEPT ![from] = Head(digits)],
                          Tail(digits), from + 1)
         ELSE fill_dashes(temp_min_terms, digits, from + 1)

\* The minterms (as decimal strings) a pattern was merged from.
find_merged_minterms(minterm) ==
    LET differed_bit == count(minterm, "-")
    IN  IF differed_bit = 0
        THEN <<str(int2(minterm))>>
        ELSE [x \in 1..Pow2(differed_bit) |->
                 str(int2(fill_dashes(minterm, zfill(bin(x - 1), differed_bit), 1)))]

\* The coverage table: minterm -> the prime implicants merged from it.
generate_prime_implicants(primes) ==
    LET merged == UNION {{<<j, i>> : j \in Range(find_merged_minterms(i))} : i \in primes}
    IN  [j \in {m[1] : m \in merged} |-> {m[2] : m \in {q \in merged : q[1] = j}}]

\* generate_essential_prime_implicants returning from inside its loop, at the
\* first minterm that has one implicant.
first_essential_prime_implicant(table) ==
    LET single == {k \in DOMAIN table : Cardinality(table[k]) = 1}
    IN  IF single = {} THEN {} ELSE table[CHOOSE k \in single : TRUE]

\* The implicants that are alone in the list of some minterm.
generate_essential_prime_implicants(table) ==
    UNION {table[i] : i \in {k \in DOMAIN table : Cardinality(table[k]) = 1}}

\* The literal term of a pattern: position i names self.variables[i].
RECURSIVE generate_variables_from_minterm(_, _)
generate_variables_from_minterm(minterm, names) ==
    IF Len(minterm) = 0 THEN <<>>
    ELSE LET i == Len(minterm)
             rest == generate_variables_from_minterm(SubSeq(minterm, 1, i - 1), names)
         IN  IF minterm[i] = "0" THEN Append(rest, Append(names[i], "'"))
             ELSE IF minterm[i] = "1" THEN Append(rest, names[i])
             ELSE rest

\* The product of two literal terms.
RECURSIVE multiply_from(_, _, _, _)
multiply_from(exp1, exp2, k, ret) ==
    IF k > Len(exp1)
    THEN append_new(ret \o exp2)
    ELSE LET x == exp1[k]
         IN  IF \/ Append(x, "'") \in Range(exp2)
                \/ (Len(x) = 2 /\ <<x[1]>> \in Range(exp2))
             THEN <<>>
             ELSE multiply_from(exp1, exp2, k + 1, Append(ret, x))

multiply_minterms(exp1, exp2) == multiply_from(exp1, exp2, 1, <<>>)

\* The non-empty products of every term of exp1 with every term of exp2.
multiply_expressions(exp1, exp2) ==
    LET all == [p \in 1..(Len(exp1) * Len(exp2)) |->
                   multiply_minterms(exp1[((p - 1) \div Len(exp2)) + 1],
                                     exp2[((p - 1) % Len(exp2)) + 1])]
    IN  SelectSeq(all, LAMBDA multi_exp : Len(multi_exp) # 0)

\* One iteration order of a set.
RECURSIVE iteration(_)
iteration(S) ==
    IF S = {} THEN <<>>
    ELSE LET x == CHOOSE y \in S : TRUE
         IN  <<x>> \o iteration(S \ {x})

\* petrick after its while loop: the lists multiplied down to petrick[0].
RECURSIVE multiply_down(_)
multiply_down(petrick) ==
    IF Len(petrick) <= 1 THEN petrick
    ELSE multiply_down(<<multiply_expressions(petrick[1], petrick[2])>>
                       \o SubSeq(petrick, 3, Len(petrick)))

\* petrick[0] when the loop of petricks_method ends.
petrick_products(table, names) ==
    LET keys == iteration(DOMAIN table)
        petrick == [y \in 1..Len(keys) |->
                       LET xs == iteration(table[keys[y]])
                       IN  [x \in 1..Len(xs) |->
                               generate_variables_from_minterm(xs[x], names)]]
    IN  multiply_down(petrick)[1]

literal_terms(implicants, names) ==
    {Range(generate_variables_from_minterm(i, names)) : i \in implicants}

generate_prime_implicants_step ==
    /\ pc = "generate_prime_implicants"
    /\ prime_implicants_list' = generate_prime_implicants(prime_implicants)
    /\ pc' = "essential"
    /\ UNCHANGED mul_vars
    /\ UNCHANGED <<variables, context, outputRows, output_row, minterms, bin_length,
                   groups, passes, merged_any, prime_implicants,
                   essential_prime_implicants, function, outcome>>

essential_step ==
    /\ pc = "essential"
    /\ essential_prime_implicants' =
           generate_essential_prime_implicants(prime_implicants_list)
    /\ pc' = "remove_essential"
    /\ UNCHANGED mul_vars
    /\ UNCHANGED <<variables, context, outputRows, output_row, minterms, bin_length,
                   groups, passes, merged_any, prime_implicants,
                   prime_implicants_list, function, outcome>>

\* del prime_implicants_list[y] for every minterm y of every essential implicant.
remove_essential ==
    /\ pc = "remove_essential"
    /\ LET covered == UNION {Range(find_merged_minterms(x)) :
                                 x \in essential_prime_implicants}
       IN  prime_implicants_list' =
               [y \in (DOMAIN prime_implicants_list) \ covered |->
                   prime_implicants_list[y]]
    /\ pc' = "cover"
    /\ UNCHANGED mul_vars
    /\ UNCHANGED <<variables, context, outputRows, output_row, minterms, bin_length,
                   groups, passes, merged_any, prime_implicants,
                   essential_prime_implicants, function, outcome>>

\* No minterm left: the function is the essential implicants.
set_function ==
    /\ pc = "cover"
    /\ DOMAIN prime_implicants_list = {}
    /\ function' = literal_terms(essential_prime_implicants, variables)
    /\ pc' = "report"
    /\ UNCHANGED mul_vars
    /\ UNCHANGED <<variables, context, outputRows, output_row, minterms, bin_length,
                   groups, passes, merged_any, prime_implicants,
                   prime_implicants_list, essential_prime_implicants, outcome>>

\* min() of an empty petrick[0] raises ValueError.  min takes the first of the
\* shortest terms, and which one is first follows the iteration order of the
\* set of prime implicants: with the implicants of a shortest term iterated
\* first, the first product is made of them alone, so each shortest set of
\* literals can be the one taken.
petricks_method ==
    /\ pc = "cover"
    /\ DOMAIN prime_implicants_list # {}
    /\ \E products \in {petrick_products(prime_implicants_list, variables)} :
           IF Len(products) = 0
           THEN /\ Raise("ValueError")
                /\ UNCHANGED function
           ELSE /\ \E t \in Range(products) :
                       /\ \A u \in Range(products) : Len(t) <= Len(u)
                       /\ function' = {Range(t)} \cup
                              literal_terms(essential_prime_implicants, variables)
                /\ pc' = "report"
                /\ UNCHANGED outcome
    /\ UNCHANGED mul_vars
    /\ UNCHANGED <<variables, context, outputRows, output_row, minterms, bin_length,
                   groups, passes, merged_any, prime_implicants,
                   prime_implicants_list, essential_prime_implicants>>

\* "if not any(self.function)": no term with a literal.
report ==
    /\ pc = "report"
    /\ outcome' = IF \E t \in function : t # {} THEN "Solution" ELSE "NoSolution"
    /\ pc' = "done"
    /\ UNCHANGED mul_vars
    /\ UNCHANGED <<variables, context, outputRows, output_row, minterms, bin_length,
                   groups, passes, merged_any, prime_implicants,
                   prime_implicants_list, essential_prime_implicants, function>>

Next ==
    \/ generate_min_terms
    \/ remove_dont_cares
    \/ group_terms
    \/ merge_pass
    \/ generate_prime_implicants_step
    \/ essential_step
    \/ remove_essential
    \/ set_function
    \/ petricks_method
    \/ report

Spec == Init /\ [][Next]_vars

(***************************************************************************)
(* multiply_minterms on its own, over literal terms whose variable names  *)
(* may have more than one letter.                                          *)
(***************************************************************************)
Names == {<<"A">>, <<"B">>, <<"A", "B">>}

negated(name) == Append(name, "'")

Literals == Names \cup {negated(v) : v \in Names}

\* The variable a literal is about.
name_of(lit) == IF lit[Len(lit)] = "'" THEN SubSeq(lit, 1, Len(lit) - 1) ELSE lit

\* The literal terms of at most MaxTermLen literals: no variable twice.
LiteralTerms ==
    {t \in UNION {[1..k -> Literals] : k \in 0..MaxTermLen} :
        \A i, j \in 1..Len(t) : i # j => name_of(t[i]) # name_of(t[j])}

InitMul ==
    /\ variables = <<>>
    /\ context = <<>>
    /\ outputRows = <<>>
    /\ output_row = <<>>
    /\ minterms = <<>>
    /\ bin_length = 0
    /\ groups = <<>>
    /\ passes = 0
    /\ merged_any = FALSE
    /\ prime_implicants = {}
    /\ prime_implicants_list = <<>>
    /\ essential_prime_implicants = {}
    /\ function = {}
    /\ outcome = "running"
    /\ pc = "multiply_minterms"
    /\ term1 \in LiteralTerms
    /\ term2 \in LiteralTerms
    /\ product = <<>>

multiply_step ==
    /\ pc = "multiply_minterms"
    /\ product' = multiply_minterms(term1, term2)
    /\ pc' = "multiplied"
    /\ UNCHANGED <<term1, term2>>
    /\ UNCHANGED qm_vars

NextMul == multiply_step

SpecMul == InitMul /\ [][NextMul]_vars

(***************************************************************************)
(* What the properties below speak of.                                     *)
(***************************************************************************)

\* The run of generate_solution has ended, by its report or by an exception.
Ended == pc \in {"done", "failed"}

\* The rows (from 1) on which the expression is true, and its being constant.
TrueRows == {r \in 1..Len(outputRows) : outputRows[r]}

AllFalse == TrueRows = {}

AllTrue == TrueRows = 1..Len(outputRows)

\* The encoding of a context row: first variable most significant.
RECURSIVE Encoding(_)
Encoding(row) ==
    IF Len(row) = 0 THEN 0
    ELSE 2 * Encoding(SubSeq(row, 1, Len(row) - 1)) + row[Len(row)]

\* A literal holds on a context row: the row's bit of its variable is 1 for a
\* plain literal and 0 for a negated one.
LiteralHolds(lit, row) ==
    \E i \in 1..Len(variables) :
        /\ variables[i] = name_of(lit)
        /\ (row[i] = 1) = (lit[Len(lit)] # "'")

\* A term (a conjunction of literals) and a function (a disjunction of terms).
TermHolds(term, row) == \A lit \in term : LiteralHolds(lit, row)

FunctionHolds(f, row) == \E term \in f : TermHolds(term, row)

\* A pattern agrees with a minterm on every position that is not '-'.
Matches(pattern, m) ==
    LET bits == zfill(bin(m), Len(pattern))
    IN  /\ Len(bits) = Len(pattern)
        /\ \A i \in 1..Len(pattern) : pattern[i] # "-" => pattern[i] = bits[i]

\* C1: when generate_solution reports a solution, the disjunction of the terms
\* of the function has, on every context row, the value the expression has.
C1_RoundTrip ==
    (pc = "done" /\ outcome = "Solution") =>
        \A r \in 1..Len(context) : FunctionHolds(function, context[r]) = outputRows[r]

\* C2: for an expression over variables that is false on every row the run ends without a formula, with
\* zero minterms retained and nothing grouped or covered.
C2_UnsatisfiableEndsEmpty ==
    (Ended /\ AllFalse /\ Len(variables) >= 1) =>
        /\ outcome \in {"IndexError", "NoSolution"}
        /\ Len(minterms) = 0
        /\ prime_implicants = {}
        /\ function = {}

\* C3: for an expression over variables that is true on every row the run completes and reports the
\* function made of the one term without literals.
C3_TautologyIsIdentityTrue ==
    (Ended /\ AllTrue /\ Len(variables) >= 1) =>
        /\ pc = "done"
        /\ outcome = "Solution"
        /\ function = {{}}

\* C4: "There is no solution" is reported only when no minterm was retained.
C4_NoSolutionOnlyWithoutMinterms ==
    outcome = "NoSolution" => Len(minterms) = 0

\* C5: when the run produced a function, every prime implicant that is alone in
\* the coverage-table list of some minterm has its literal term in the function.
C5_EssentialInFunction ==
    pc = "done" =>
        LET table == generate_prime_implicants(prime_implicants)
        IN  \A k \in DOMAIN table : \A p \in table[k] :
                table[k] = {p} =>
                    Range(generate_variables_from_minterm(p, variables)) \in function

\* C5 witness: petricks_method chose a term and essential implicants were added.
C5_Witness ==
    /\ pc = "done"
    /\ outcome = "Solution"
    /\ essential_prime_implicants # {}
    /\ DOMAIN prime_implicants_list # {}

\* C6: after remove_dont_cares the retained minterms are exactly the encodings of
\* the rows whose result is true.
C6_RetainedAreTrueRows ==
    pc = "group_terms" =>
        /\ Range(minterms) = {Encoding(context[r]) : r \in TrueRows}
        /\ Len(minterms) = Cardinality(TrueRows)

\* C7: every pattern in a group and every prime implicant is a string over
\* {0, 1, -} with one position per variable.
C7_PatternWidth ==
    \A p \in list_flatten(groups) \cup prime_implicants :
        /\ Len(p) = Len(variables)
        /\ Range(p) \subseteq {"0", "1", "-"}

\* C8: when minterms are left in the table after the essential implicants took
\* theirs, petricks_method completes, every retained minterm satisfies a term of
\* the function, and every row satisfying a term is a retained minterm.
C8_PetrickCovers ==
    (pc \in {"failed", "report", "done"} /\ DOMAIN prime_implicants_list # {}) =>
        /\ pc # "failed"
        /\ \A r \in 1..Len(context) :
               FunctionHolds(function, context[r])
                   = (Encoding(context[r]) \in Range(minterms))

\* Some variable is both plain and negated among the literals.
Contradictory(lits) == \E v \in Names : v \in lits /\ negated(v) \in lits

\* C9: multiply_minterms returns the empty result when the two terms together
\* hold a variable both plain and negated, and otherwise the union of their
\* literals, each once.
C9_MultiplyIsUnion ==
    pc = "multiplied" =>
        LET lits == Range(term1) \cup Range(term2)
        IN  IF Contradictory(lits)
            THEN product = <<>>
            ELSE /\ Range(product) = lits
                 /\ Len(product) = Cardinality(lits)

\* C10: the coverage table as generate_prime_implicants builds it has the retained
\* minterms as its keys, each with a non-empty list of implicants that match it,
\* and no prime implicant matches a minterm that was not retained.
C10_CoverageTable ==
    pc = "essential" =>
        /\ DOMAIN prime_implicants_list = {str(m) : m \in Range(minterms)}
        /\ \A m \in Range(minterms) :
               /\ str(m) \in DOMAIN prime_implicants_list
               /\ prime_implicants_list[str(m)] # {}
               /\ \A p \in prime_implicants_list[str(m)] : Matches(p, m)
        /\ \A p \in prime_implicants :
               \A m \in 0..(Pow2(Len(p)) - 1) :
                   Matches(p, m) => m \in Range(minterms)

\* C10 witness: a table in which a merged implicant shares a minterm with another.
C10_Witness ==
    /\ pc = "essential"
    /\ \E k \in DOMAIN prime_implicants_list :
           /\ Cardinality(prime_implicants_list[k]) >= 2
           /\ \E p \in prime_implicants_list[k] : count(p, "-") >= 1

\* Two patterns differ in exactly one position.
DifferByOne(p, q) == Cardinality({i \in 1..Len(p) : p[i] # q[i]}) = 1

\* Two keys of a groups dict that follow each other in sorted order.
AdjacentKeys(g, a, b) ==
    /\ a \in DOMAIN g
    /\ b \in DOMAIN g
    /\ a < b
    /\ ~\E c \in DOMAIN g : a < c /\ c < b

\* The patterns of g that have a partner, one position apart, in the group next
\* to their own.
MergedInPass(g) ==
    UNION {{pq[1], pq[2]} :
        pq \in UNION {{pr \in Range(g[ab[1]]) \X Range(g[ab[2]]) : DifferByOne(pr[1], pr[2])} :
                   ab \in {kk \in (DOMAIN g) \X (DOMAIN g) : AdjacentKeys(g, kk[1], kk[2])}}}

PatternsOf(g) == UNION {Range(g[k]) : k \in DOMAIN g}

\* What C11 says of one pass of the while loop of group_terms.
C11_Pass ==
    /\ prime_implicants \subseteq prime_implicants'
    /\ pc = "merge_pass" =>
           \E merged \in {MergedInPass(groups)} :
               /\ groups # <<>>
               /\ passes <= bin_length
               /\ passes' = passes + 1
               /\ \A p \in PatternsOf(groups) : count(p, "-") = passes
               /\ \A p \in PatternsOf(groups') : count(p, "-") = passes + 1
               /\ (merged # {}) = (pc' = "merge_pass")
               /\ pc' \in {"merge_pass", "generate_prime_implicants"}
               /\ PatternsOf(groups) \ merged \subseteq prime_implicants'

\* C11: the merge loop of group_terms ends.  The patterns of a pass have one '-'
\* more than those of the pass before, a pass goes on to another exactly when it
\* merged something, no pass starts after bin_length + 1 passes, every pattern
\* that no pass merged goes to prime_implicants in its pass, and nothing
\* leaves prime_implicants afterwards.
C11_MergeLoopTerminates == [][C11_Pass]_vars

\* C11 witness: the loop has ended after three passes or more, with prime
\* implicants left behind by different passes.
C11_Witness ==
    /\ pc = "generate_prime_implicants"
    /\ passes >= 3
    /\ passes <= bin_length + 1
    /\ \E p, q \in prime_implicants : count(p, "-") < count(q, "-")

=============================================================================
